---- MODULE Spec2Model ----
(***************************************************************************)
(* A model of the Hermes DICOM pipeline: the dispatcher's readiness check  *)
(* and delivery state machine (dispatch/status.py, dispatch/send.py) and   *)
(* the retention cleaner (cleaner.py).  The services share nothing but the *)
(* filesystem, so the state is the directory trees and, for every running  *)
(* call, the position it has reached.                                      *)
(***************************************************************************)
EXTENDS Integers, FiniteSets, Sequences, TLC

----------------------------------------------------------------------------
(* Bounds and configuration values *)

\* last instant of the wall clock
MaxTime == 3
\* config: retry_max
RetryMax == 2
\* config: retry_delay
RetryDelay == 2
\* config: retention (seconds)
Retention == 1
\* how many times a move of a directory may fail
MaxFaults == 1

Times == 0..MaxTime
\* basenames of the outgoing directories (<series_uid>#<target_name>)
Names == {"A"}
\* the *.dcm payload files of a series
Files == {"1.dcm", "2.dcm"}
Workers == {"w1", "w2"}
\* the mandatory keys of target.json
MandatoryKeys == {"target_ip", "target_port", "target_aet_target"}
\* "absent" for an optional integer key of target.json
Absent == -1

----------------------------------------------------------------------------
(* Directories *)

\* the parsed content of target.json, or why there is none
NoTarget == [kind |-> "absent", keys |-> {}, retries |-> Absent, next_retry_at |-> Absent]
Malformed == [kind |-> "malformed", keys |-> {}, retries |-> Absent, next_retry_at |-> Absent]
Target(keys, retries, nra) ==
    [kind |-> "ok", keys |-> keys, retries |-> retries, next_retry_at |-> nra]

\* a path that does not exist
NoDir == [exists |-> FALSE, dcm |-> {}, lock |-> FALSE, error |-> FALSE,
          sending |-> FALSE, tj |-> NoTarget, inside |-> {}]

\* a directory: its *.dcm files, its marker files and its target.json;
\* inside holds the directories that were moved into it
Dir(dcm, lock, error, sending, tj) ==
    [exists |-> TRUE, dcm |-> dcm, lock |-> lock, error |-> error,
     sending |-> sending, tj |-> tj, inside |-> {}]

\* names inside success/ and error/: the basename, or basename_<timestamp>
NoStamp == -1
DestNames == [base : Names, ts : {NoStamp} \cup Times]
Plain(d) == [base |-> d, ts |-> NoStamp]
Stamped(d, t) == [base |-> d, ts |-> t]
EmptyTree == [n \in DestNames |-> NoDir]

VARIABLES
    now,        \* wall clock (time.time(), datetime.now())
    outgoing,   \* outgoing/: basename -> directory
    success,    \* success/: destination name -> directory
    error,      \* error/: destination name -> directory
    rpc,        \* router: how far the staging of each outgoing directory is
    wk,         \* dispatcher workers: position and arguments of the call
    last,       \* dispatcher: the directory and outcome of the call that ended last
    faults,     \* how many moves have failed so far
    sends,      \* how many times the sender was started on each directory
    folder,     \* readiness check on its own: the directory examined
    result,     \* readiness check on its own: what the check gave
    entries,    \* cleaner: the entries of the data folders, by name
    cpc,        \* cleaner: position inside clean and clean_dir
    cand,       \* cleaner: oldest_first, the entries still to delete
    deleted,    \* cleaner: what delete_folder removed, with the age it had
    cevents,    \* cleaner: the events sent since clean was called
    work_dir,   \* find_series_uid on its own: the names iterdir gives, in its order
    series_uid, \* find_series_uid on its own: what it returned
    cq,         \* cleaner: the folders clean has still to hand to clean_dir
    offpeak,    \* config: offpeak_start and offpeak_end
    current_time, \* the time of day handed to _is_offpeak
    inwindow,   \* what _is_offpeak gave, or why clean did not ask
    terminated, \* helper.isTerminated(): the process-wide termination flag
    incoming,   \* incoming/: file name -> mtime, or NoFile
    spc,        \* router scan: position inside runRouter
    scanned,    \* router scan: how the last call of runRouter began, and when
    completeSeries, \* router scan: the keys of that dictionary, in insertion order
    todo,       \* router scan: what is left of sorted(completeSeries)
    handed,     \* router scan: the series handed to process_series, in order
    error_files_found, \* router scan: the variable of that name
    failedSeries, \* router scan: the series whose process_series raised
    revents,    \* router scan: the series an ERROR series event was sent for
    reprocessed \* router scan: process_error_files was called

dispVars == <<outgoing, success, error, rpc, wk, last, faults, sends>>
statVars == <<folder, result>>
cleanVars == <<entries, cpc, cand, deleted, cevents, cq, offpeak, current_time, inwindow,
               work_dir, series_uid>>
routerVars == <<incoming, spc, scanned, completeSeries, todo, handed,
                error_files_found, failedSeries, revents, reprocessed>>
scanVars == <<terminated, routerVars>>
vars == <<now, outgoing, success, error, rpc, wk, last, faults, sends, folder, result,
          entries, cpc, cand, deleted, cevents, cq, offpeak, current_time, inwindow,
          work_dir, series_uid,
          terminated, routerVars>>

----------------------------------------------------------------------------
(* dispatch/status.py *)

\* is_target_json_valid: None, the parsed target, or json.load raising
is_target_json_valid(dir) ==
    IF ~dir.exists \/ dir.tj.kind = "absent" THEN [kind |-> "false", target |-> NoTarget]
    ELSE IF dir.tj.kind = "malformed" THEN [kind |-> "raise", target |-> NoTarget]
    ELSE IF ~(MandatoryKeys \subseteq dir.tj.keys) THEN [kind |-> "false", target |-> NoTarget]
    ELSE [kind |-> "target", target |-> dir.tj]

\* folder_status without the test for .lock
folder_status_nolock(dir) ==
    /\ ~dir.error
    /\ ~dir.sending
    /\ Cardinality(dir.dcm) > 0

folder_status(dir) ==
    /\ ~dir.lock
    /\ ~dir.error
    /\ ~dir.sending
    /\ Cardinality(dir.dcm) > 0

\* is_ready_for_sending: the target descriptor, False, or the exception of
\* is_target_json_valid, which is called whatever folder_status is
is_ready_for_sending(dir) ==
    LET content == is_target_json_valid(dir) IN
    IF content.kind = "raise" THEN content
    ELSE IF folder_status(dir) /\ content.kind = "target" THEN content
    ELSE [kind |-> "false", target |-> NoTarget]

----------------------------------------------------------------------------
(* The router staging an outgoing directory (routing/process_series.py) *)

\* what the router may write as target.json
TargetChoices ==
    { Target(MandatoryKeys, Absent, Absent),
      Target(MandatoryKeys \ {"target_port"}, Absent, Absent),
      Malformed }

\* create outgoing/<uid>#<target>/ together with its .lock
RouterCreate(d) ==
    /\ rpc[d] = "none"
    /\ ~outgoing[d].exists
    /\ outgoing' = [outgoing EXCEPT ![d] = Dir({}, TRUE, FALSE, FALSE, NoTarget)]
    /\ rpc' = [rpc EXCEPT ![d] = "staging"]
    /\ UNCHANGED <<now, success, error, wk, last, faults, sends, statVars, cleanVars,
                   scanVars>>

\* place one file of the series
RouterPlace(d, f) ==
    /\ rpc[d] = "staging"
    /\ f \notin outgoing[d].dcm
    /\ outgoing' = [outgoing EXCEPT ![d].dcm = @ \cup {f}]
    /\ UNCHANGED <<now, success, error, rpc, wk, last, faults, sends, statVars,
                   cleanVars, scanVars>>

\* write target.json (the order of the writes under .lock is left open)
RouterWriteTarget(d, tj) ==
    /\ rpc[d] = "staging"
    /\ outgoing[d].tj.kind = "absent"
    /\ outgoing' = [outgoing EXCEPT ![d].tj = tj]
    /\ UNCHANGED <<now, success, error, rpc, wk, last, faults, sends, statVars,
                   cleanVars, scanVars>>

\* remove .lock after the payload and target.json are placed
RouterUnlock(d) ==
    /\ rpc[d] = "staging"
    /\ outgoing[d].dcm = Files
    /\ outgoing[d].tj.kind # "absent"
    /\ outgoing' = [outgoing EXCEPT ![d].lock = FALSE]
    /\ rpc' = [rpc EXCEPT ![d] = "done"]
    /\ UNCHANGED <<now, success, error, wk, last, faults, sends, statVars, cleanVars,
                   scanVars>>

----------------------------------------------------------------------------
(* dispatch/retry.py *)

\* increase_retry: retries + 1 and next_retry_at = now + retry_delay are
\* written back while the new count is below retry_max; the result says
\* whether they were
increase_retry(tj, t) ==
    LET retries == (IF tj.retries = Absent THEN 0 ELSE tj.retries) + 1 IN
    IF retries < RetryMax
    THEN [increased |-> TRUE,
          tj |-> [tj EXCEPT !.retries = retries, !.next_retry_at = t + RetryDelay]]
    ELSE [increased |-> FALSE, tj |-> tj]

----------------------------------------------------------------------------
(* dispatch/send.py *)

\* the order in which copytree and rmtree go through a directory: the *.dcm
\* files by name, then target.json
FileOrder == <<"1.dcm", "2.dcm">>
First(n) == {FileOrder[i] : i \in {j \in 1..Len(FileOrder) : j <= n}}

\* how shutil.move ends: done; failed before anything changed; the copy to
\* the destination failed after n entries; the removal of the source failed
\* after n entries
MoveModes ==
    [kind : {"ok", "fail"}, n : {0}]
    \cup [kind : {"fail_copy"}, n : 0..Len(FileOrder)]
    \cup [kind : {"fail_remove"}, n : 0..(Len(FileOrder) + 1)]

\* the first n entries of dir, and the others
Copied(dir, n) ==
    [dir EXCEPT !.dcm = @ \cap First(n),
                !.tj = IF n > Len(FileOrder) THEN @ ELSE NoTarget]
Remaining(dir, n) ==
    [dir EXCEPT !.dcm = @ \ First(n),
                !.tj = IF n > Len(FileOrder) THEN NoTarget ELSE @]

\* _move_sent_directory copying instead of moving: the source stays
_move_sent_directory_copying(src, tree, d, t, m) ==
    LET target == IF tree[Plain(d)].exists THEN Stamped(d, t) ELSE Plain(d)
        copy == [src EXCEPT !.sending = FALSE]
    IN  IF m.kind = "ok" /\ ~(tree[target].exists /\ tree[target].inside # {})
        THEN [src |-> src,
              tree |-> IF tree[target].exists
                       THEN [tree EXCEPT ![target].inside = {copy}]
                       ELSE [tree EXCEPT ![target] = copy],
              moved |-> TRUE]
        ELSE [src |-> src, tree |-> tree, moved |-> FALSE]

\* _move_sent_directory removing the source although the copy failed
_move_sent_directory_lossy(src, tree, d, t, m) ==
    LET target == IF tree[Plain(d)].exists THEN Stamped(d, t) ELSE Plain(d)
        put(copy) ==
            IF tree[target].exists
            THEN [tree EXCEPT ![target].inside = {copy}]
            ELSE [tree EXCEPT ![target] = copy]
    IN  CASE tree[target].exists /\ tree[target].inside # {} ->
               [src |-> src, tree |-> tree, moved |-> FALSE]
          [] m.kind = "ok" ->
               [src |-> NoDir, tree |-> put([src EXCEPT !.sending = FALSE]), moved |-> TRUE]
          [] m.kind = "fail" ->
               [src |-> src, tree |-> tree, moved |-> FALSE]
          [] OTHER ->
               [src |-> NoDir, tree |-> put(Copied(src, m.n)), moved |-> FALSE]

\* _move_sent_directory: the source and the destination tree afterwards.
\* A taken basename gives <name>_<timestamp>; shutil.move into an existing
\* directory puts the source inside it, and raises when that holds the
\* basename already.  The unlink of .sending at the end raises when the
\* marker is missing.  The except clause swallows every exception.
_move_sent_directory(src, tree, d, t, m) ==
    LET target == IF tree[Plain(d)].exists THEN Stamped(d, t) ELSE Plain(d)
        into == tree[target].exists
        put(copy) ==
            IF into
            THEN [tree EXCEPT ![target].inside = {copy}]
            ELSE [tree EXCEPT ![target] = copy]
        unlinked(tr) == [tr EXCEPT ![target].sending = FALSE]
    IN  CASE into /\ tree[target].inside # {} ->
               [src |-> src, tree |-> tree, moved |-> FALSE]
          [] m.kind = "ok" ->
               [src |-> NoDir, tree |-> unlinked(put(src)), moved |-> TRUE]
          [] m.kind = "fail" ->
               [src |-> src, tree |-> tree, moved |-> FALSE]
          [] m.kind = "fail_copy" ->
               [src |-> src, tree |-> put(Copied(src, m.n)), moved |-> FALSE]
          [] m.kind = "fail_remove" ->
               [src |-> Remaining(src, m.n), tree |-> put(src), moved |-> FALSE]

\* a worker between calls
Idle == [pc |-> "idle", dir |-> CHOOSE d \in Names : TRUE, target_info |-> NoTarget,
         pre |-> NoDir]

\* how a call on directory d ended
Done(d, outcome) == [dir |-> d, outcome |-> outcome]

\* no call has ended yet
NoCall == Done(CHOOSE d \in Names : TRUE, "none")

\* the dispatcher's scan reaching directory d: execute is called when
\* is_ready_for_sending gave a target, and the sender is started
Dispatch(w, d) ==
    /\ wk[w].pc = "idle"
    /\ outgoing[d].exists
    /\ LET ready == is_ready_for_sending(outgoing[d]) IN
       CASE ready.kind = "target" ->
              /\ wk' = [wk EXCEPT ![w] = [pc |-> "sending", dir |-> d,
                                          target_info |-> ready.target,
                                          pre |-> outgoing[d]]]
              /\ sends' = [sends EXCEPT ![d] = IF @ > RetryMax THEN @ ELSE @ + 1]
              /\ UNCHANGED last
         [] ready.kind = "raise" ->
              /\ last' = Done(d, "scan_raised")
              /\ UNCHANGED <<wk, sends>>
         [] OTHER ->
              /\ last' = Done(d, "skipped")
              /\ UNCHANGED <<wk, sends>>
    /\ UNCHANGED <<now, outgoing, success, error, rpc, faults, statVars, cleanVars, scanVars>>

\* execute, the sender exits 0: the DISPATCH event is sent, nothing else
SenderSucceeds(w) ==
    /\ wk[w].pc = "sending"
    /\ outgoing[wk[w].dir].exists
    /\ outgoing[wk[w].dir].dcm # {}
    /\ wk' = [wk EXCEPT ![w] = Idle]
    /\ last' = Done(wk[w].dir, "dispatched")
    /\ UNCHANGED <<now, outgoing, success, error, rpc, faults, sends, statVars, cleanVars,
                   scanVars>>

\* the branch on increase_retry's result, inverted
retry_increased_inverted(src, t) == ~increase_retry(src.tj, t).increased

\* execute, lines 79-80: increase_retry is called and its result branched on
retry_increased(src, t) == increase_retry(src.tj, t).increased

\* execute, the sender exits non-zero (CalledProcessError)
SenderFails(w, m) ==
    /\ wk[w].pc = "sending"
    /\ LET d == wk[w].dir
           src == outgoing[d]
           \* the directory once increase_retry has returned
           written == [src EXCEPT !.tj = increase_retry(src.tj, now).tj]
           mv == _move_sent_directory(written, error, d, now, m)
       IN  IF ~src.exists \/ src.tj.kind # "ok"
           THEN \* increase_retry cannot read target.json and raises
                /\ m.kind = "ok"
                /\ last' = Done(d, "raised")
                /\ UNCHANGED <<outgoing, error, faults>>
           ELSE IF retry_increased(src, now)
           THEN \* (Path(source_folder) / ".sending").unlink() raises
                \* FileNotFoundError when the marker is missing
                /\ m.kind = "ok"
                /\ outgoing' = [outgoing EXCEPT ![d] = [written EXCEPT !.sending = FALSE]]
                /\ last' = Done(d, IF src.sending THEN "retry" ELSE "retry_raised")
                /\ UNCHANGED <<error, faults>>
           ELSE /\ m.kind # "ok" => faults < MaxFaults
                /\ faults' = IF m.kind = "ok" THEN faults ELSE faults + 1
                /\ outgoing' = [outgoing EXCEPT ![d] = mv.src]
                /\ error' = mv.tree
                /\ last' = Done(d, IF mv.moved THEN "suspended" ELSE "move_failed")
    /\ wk' = [wk EXCEPT ![w] = Idle]
    /\ UNCHANGED <<now, success, rpc, sends, statVars, cleanVars, scanVars>>

\* the wall clock advances
Tick ==
    /\ now < MaxTime
    /\ now' = now + 1
    /\ UNCHANGED <<dispVars, statVars, cleanVars, scanVars>>

----------------------------------------------------------------------------
(* router.py: the files of incoming/ *)

\* the sequences that hold every element of S once
RECURSIVE Orders(_)
Orders(S) ==
    IF S = {} THEN {<<>>}
    ELSE UNION {{<<x>> \o o : o \in Orders(S \ {x})} : x \in S}

\* config: series_complete_trigger
SeriesCompleteTrigger == 1

\* a file name: the characters of the series UID, "#", the rest of the stem
\* and the suffix
FileName(uid, stem, suffix) == uid \o <<"#", stem, suffix>>
IncomingNames ==
    { FileName(<<"2">>, "a", ".tags"), FileName(<<"2">>, "b", ".tags"),
      FileName(<<"2">>, "a", ".dcm"),
      FileName(<<"1", "0">>, "a", ".tags"), FileName(<<"1", "0">>, "a", ".error") }
NoFile == -1

\* name.endswith(suffix)
endswith(name, suffix) == Len(name) > 0 /\ name[Len(name)] = suffix

\* name.split('#', 1)[0]: what stands before the first '#', or all of it
split(name) ==
    LET at == {i \in 1..Len(name) : name[i] = "#"} IN
    IF at = {} THEN name
    ELSE SubSeq(name, 1, (CHOOSE i \in at : \A j \in at : i <= j) - 1)

\* the order of str: by character code, a prefix first
CharCode ==
    ("#" :> 35) @@ ("." :> 46) @@ ("0" :> 48) @@ ("1" :> 49) @@ ("2" :> 50) @@
    ("3" :> 51) @@ ("4" :> 52) @@ ("5" :> 53) @@ ("6" :> 54) @@ ("7" :> 55) @@
    ("8" :> 56) @@ ("9" :> 57)
RECURSIVE StrLess(_, _)
StrLess(a, b) ==
    IF a = <<>> THEN b # <<>>
    ELSE IF b = <<>> THEN FALSE
    ELSE IF Head(a) = Head(b) THEN StrLess(Tail(a), Tail(b))
    ELSE CharCode[Head(a)] < CharCode[Head(b)]

\* a dictionary as the sequence of its items in insertion order; its keys
\* as a set and in that order
Keys(dict) == {dict[i].key : i \in DOMAIN dict}
KeyList(dict) == [i \in DOMAIN dict |-> dict[i].key]

\* lines 99-103: series[seriesString] becomes the larger modification time
Put(series, seriesString, modificationTime) ==
    IF seriesString \in Keys(series)
    THEN [i \in DOMAIN series |->
             IF series[i].key = seriesString /\ modificationTime > series[i].value
             THEN [key |-> seriesString, value |-> modificationTime]
             ELSE series[i]]
    ELSE Append(series, [key |-> seriesString, value |-> modificationTime])

\* lines 93-103: the series dictionary after the first n entries of scandir
RECURSIVE ScanSeries(_, _, _)
ScanSeries(listing, inc, n) ==
    IF n = 0 THEN <<>>
    ELSE LET series == ScanSeries(listing, inc, n - 1)
             name == listing[n]
         IN  IF endswith(name, ".tags")
             THEN Put(series, split(name), inc[name])
             ELSE series

\* lines 104-107 looking at the first entry only
ErrorFilesFound_first(listing) == Len(listing) > 0 /\ endswith(listing[1], ".error")

\* lines 104-107: an entry whose name ends in .error was seen
ErrorFilesFound(listing) == \E i \in 1..Len(listing) : endswith(listing[i], ".error")

\* lines 110-112 with the threshold included
ExceedsTrigger_inclusive(series, t) ==
    SelectSeq(series, LAMBDA item : (t - item.value) >= SeriesCompleteTrigger)

\* lines 110-112: the series that exceed the "series complete" threshold
ExceedsTrigger(series, t) ==
    SelectSeq(series, LAMBDA item : (t - item.value) > SeriesCompleteTrigger)

\* iterating the dictionary as it is: insertion order
sorted_not(dict) == KeyList(dict)

\* sorted(completeSeries): the keys in ascending order
sorted(dict) ==
    CHOOSE o \in Orders(Keys(dict)) :
        \A i \in 1..Len(o), j \in 1..Len(o) : i < j => StrLess(o[i], o[j])

\* os.scandir gives the entries in no particular order: the orders tried
\* are one that puts the files of each series first, and its reverse
ScandirOrder ==
    << FileName(<<"2">>, "b", ".tags"), FileName(<<"2">>, "a", ".dcm"),
       FileName(<<"1", "0">>, "a", ".error"), FileName(<<"1", "0">>, "a", ".tags"),
       FileName(<<"2">>, "a", ".tags") >>
Reverse(seq) == [i \in DOMAIN seq |-> seq[Len(seq) + 1 - i]]
Listings(inc) ==
    LET present(name) == inc[name] # NoFile IN
    {SelectSeq(ScandirOrder, present), SelectSeq(Reverse(ScandirOrder), present)}

\* how a call of runRouter began
NotScanned == [kind |-> "none", at |-> 0]
Began(kind, t) == [kind |-> kind, at |-> t]

\* the receiver stores a file in incoming/
Receive(name) ==
    /\ incoming[name] = NoFile
    /\ incoming' = [incoming EXCEPT ![name] = now]
    /\ UNCHANGED <<now, terminated, spc, scanned, completeSeries, todo, handed,
                   error_files_found, failedSeries, revents, reprocessed,
                   dispVars, statVars, cleanVars>>

\* runRouter, lines 68-118: the termination flag, the configuration, the
\* listing of incoming/ and the choice of the complete series
runRouter(cfg_ok, listing) ==
    /\ spc = "idle"
    /\ IF terminated \/ ~cfg_ok
       THEN /\ scanned' = Began(IF terminated THEN "terminated" ELSE "noconfig", 0)
            /\ UNCHANGED <<spc, completeSeries, todo, handed, error_files_found,
                           failedSeries, revents, reprocessed>>
       ELSE LET series == ScanSeries(listing, incoming, Len(listing)) IN
            /\ scanned' = Began("scanned", now)
            /\ completeSeries' = KeyList(ExceedsTrigger(series, now))
            /\ todo' = sorted(ExceedsTrigger(series, now))
            /\ error_files_found' = ErrorFilesFound(listing)
            /\ handed' = <<>>
            /\ failedSeries' = {}
            /\ revents' = {}
            /\ reprocessed' = FALSE
            /\ spc' = "series"
    /\ UNCHANGED <<now, terminated, incoming, dispVars, statVars, cleanVars>>

\* line 123: process_series is called for the next complete series
SeriesBegin ==
    /\ spc = "series"
    /\ todo # <<>>
    /\ handed' = Append(handed, Head(todo))
    /\ spc' = "processing"
    /\ UNCHANGED <<now, terminated, incoming, scanned, completeSeries, todo,
                   error_files_found, failedSeries, revents, reprocessed,
                   dispVars, statVars, cleanVars>>

\* the scan going on after a series whatever process_series did
goes_on_unless_raised(raises, flag) == ~flag /\ ~raises

\* lines 124-130: an exception of process_series is caught; only the
\* termination flag ends the scan
goes_on(raises, flag) == ~flag

\* lines 123-130: process_series returns or raises, then the termination
\* flag is looked at.  A series that was processed has left incoming/.
SeriesEnd(raises) ==
    /\ spc = "processing"
    /\ LET entry == Head(todo) IN
       IF raises
       THEN /\ failedSeries' = failedSeries \cup {entry}
            /\ revents' = revents \cup {entry}
            /\ UNCHANGED incoming
       ELSE /\ incoming' = [n \in IncomingNames |->
                               IF split(n) = entry /\ ~endswith(n, ".error")
                               THEN NoFile ELSE incoming[n]]
            /\ UNCHANGED <<failedSeries, revents>>
    /\ IF goes_on(raises, terminated)
       THEN /\ todo' = Tail(todo)
            /\ spc' = "series"
            /\ UNCHANGED <<scanned, completeSeries, handed, error_files_found>>
       ELSE /\ spc' = "idle"
            /\ scanned' = NotScanned
            /\ completeSeries' = <<>>
            /\ todo' = <<>>
            /\ handed' = <<>>
            /\ error_files_found' = FALSE
    /\ UNCHANGED <<now, terminated, reprocessed, dispVars, statVars, cleanVars>>

\* lines 132-133: after the last series, process_error_files if a .error
\* file was seen; the local variables end with the call
RouterReturn ==
    /\ spc = "series"
    /\ todo = <<>>
    /\ reprocessed' = error_files_found
    /\ spc' = "idle"
    /\ scanned' = NotScanned
    /\ completeSeries' = <<>>
    /\ handed' = <<>>
    /\ error_files_found' = FALSE
    /\ UNCHANGED <<now, terminated, incoming, todo, failedSeries, revents,
                   dispVars, statVars, cleanVars>>

\* an earlier suspended directory that may already sit in error/
OldSuspended == Dir({"0.dcm"}, FALSE, FALSE, FALSE, Target(MandatoryKeys, RetryMax, 0))

----------------------------------------------------------------------------
(* cleaner.py: the off-peak window *)

\* the characters of an "HH:MM" string
DigitValue ==
    ("0" :> 0) @@ ("1" :> 1) @@ ("2" :> 2) @@ ("3" :> 3) @@ ("4" :> 4) @@
    ("5" :> 5) @@ ("6" :> 6) @@ ("7" :> 7) @@ ("8" :> 8) @@ ("9" :> 9)
HHMM(a, b, c, d) == <<a, b, ":", c, d>>

\* one or two decimal digits, and their value
IsNumber(s) == Len(s) \in 1..2 /\ \A i \in 1..Len(s) : s[i] \in DOMAIN DigitValue
Number(s) ==
    IF Len(s) = 1 THEN DigitValue[s[1]] ELSE 10 * DigitValue[s[1]] + DigitValue[s[2]]

\* datetime.strptime(s, "%H:%M").time(): the time of day, or ValueError
strptime(s) ==
    LET colons == {i \in 1..Len(s) : s[i] = ":"}
        p == CHOOSE i \in colons : TRUE
        hh == SubSeq(s, 1, p - 1)
        mm == SubSeq(s, p + 1, Len(s))
    IN  IF /\ Cardinality(colons) = 1
           /\ IsNumber(hh)
           /\ IsNumber(mm)
           /\ Number(hh) <= 23
           /\ Number(mm) <= 59
        THEN [ok |-> TRUE, hour |-> Number(hh), minute |-> Number(mm)]
        ELSE [ok |-> FALSE, hour |-> 0, minute |-> 0]

\* datetime.time objects compare by hour, then minute
TimeLT(a, b) == a.hour < b.hour \/ (a.hour = b.hour /\ a.minute < b.minute)
TimeLE(a, b) == ~TimeLT(b, a)

\* what _is_offpeak gives: a boolean or the ValueError
Raised == [kind |-> "raise", value |-> FALSE]
Value(b) == [kind |-> "value", value |-> b]
\* _is_offpeak has not been asked, and clean returning before it asks
NotAsked == [kind |-> "none", value |-> FALSE]
Skipped(why) == [kind |-> why, value |-> FALSE]

\* _is_offpeak without the branch for a window that crosses midnight
_is_offpeak_sameday(offpeak_start, offpeak_end, cur) ==
    LET start_time == strptime(offpeak_start)
        end_time == strptime(offpeak_end)
    IN  IF ~start_time.ok \/ ~end_time.ok THEN Raised
        ELSE Value(TimeLE(start_time, cur) /\ TimeLE(cur, end_time))

_is_offpeak(offpeak_start, offpeak_end, cur) ==
    LET start_time == strptime(offpeak_start)
        end_time == strptime(offpeak_end)
    IN  IF ~start_time.ok \/ ~end_time.ok THEN Raised
        ELSE IF TimeLT(start_time, end_time)
        THEN Value(TimeLE(start_time, cur) /\ TimeLE(cur, end_time))
        ELSE Value(TimeLE(start_time, cur) \/ TimeLE(cur, end_time))

\* datetime.now().time(): the wall clock counts hours
Clock(t) == [hour |-> t % 24, minute |-> 0]
NoTime == [hour |-> 0, minute |-> 0]
NoWindow == [start |-> HHMM("0", "0", "0", "0"), end |-> HHMM("0", "0", "0", "0")]

\* the entries of the data folders
FolderOf ==
    ("e1" :> "success") @@ ("e2" :> "success") @@ ("e3" :> "discard") @@
    ("e4" :> "error") @@ ("e5" :> "incoming") @@ ("e6" :> "outgoing")
EntryNames == {"e1", "e2", "e3", "e4", "e5", "e6"}
Entries == [isdir : BOOLEAN, mtime : Times, present : BOOLEAN]

\* what find_series_uid gives: a series uid, the sentinel string, or None
Uid(value) == [kind |-> "uid", value |-> value]
Sentinel == [kind |-> "series_uid-not-found", value |-> <<>>]
None == [kind |-> "None", value |-> <<>>]
NotCalled == [kind |-> "not_called", value |-> <<>>]

\* "#" in name
HasHash(name) == \E i \in 1..Len(name) : name[i] = "#"

\* find_series_uid: both returns stand in the body of the loop, so the first
\* entry of the listing decides; with no entry the function falls off its end
find_series_uid(listing) ==
    IF listing = <<>> THEN None
    ELSE IF HasHash(listing[1]) THEN Uid(split(listing[1]))
    ELSE Sentinel

Pending == [kind |-> "none", target |-> NoTarget]

InitStatusIdle ==
    /\ folder = NoDir
    /\ result = Pending

InitDispatchIdle ==
    /\ outgoing = [d \in Names |-> NoDir]
    /\ success = EmptyTree
    /\ error = EmptyTree
    /\ rpc = [d \in Names |-> "none"]
    /\ wk = [w \in Workers |-> Idle]
    /\ last = NoCall
    /\ faults = 0
    /\ sends = [d \in Names |-> 0]

InitCleanIdle ==
    /\ entries = [e \in EntryNames |-> [isdir |-> FALSE, mtime |-> 0, present |-> FALSE]]
    /\ cpc = "idle"
    /\ cand = <<>>
    /\ deleted = {}
    /\ cevents = {}
    /\ work_dir = <<>>
    /\ series_uid = NotCalled
    /\ cq = <<>>
    /\ offpeak = NoWindow
    /\ current_time = NoTime
    /\ inwindow = NotAsked

InitScanIdle ==
    /\ terminated = FALSE
    /\ incoming = [n \in IncomingNames |-> NoFile]
    /\ spc = "idle"
    /\ scanned = NotScanned
    /\ completeSeries = <<>>
    /\ todo = <<>>
    /\ handed = <<>>
    /\ error_files_found = FALSE
    /\ failedSeries = {}
    /\ revents = {}
    /\ reprocessed = FALSE

Init ==
    /\ now = 0
    /\ outgoing = [d \in Names |-> NoDir]
    /\ success = EmptyTree
    /\ error \in {EmptyTree, [EmptyTree EXCEPT ![Plain("A")] = OldSuspended]}
    /\ rpc = [d \in Names |-> "none"]
    /\ wk = [w \in Workers |-> Idle]
    /\ last = NoCall
    /\ faults = 0
    /\ sends = [d \in Names |-> 0]
    /\ InitStatusIdle
    /\ InitCleanIdle
    /\ InitScanIdle

Next ==
    \/ \E d \in Names : RouterCreate(d)
    \/ \E d \in Names, f \in Files : RouterPlace(d, f)
    \/ \E d \in Names, tj \in TargetChoices : RouterWriteTarget(d, tj)
    \/ \E d \in Names : RouterUnlock(d)
    \/ \E w \in Workers, d \in Names : Dispatch(w, d)
    \/ \E w \in Workers : SenderSucceeds(w)
    \/ \E w \in Workers, m \in MoveModes : SenderFails(w, m)
    \/ Tick

Spec == Init /\ [][Next]_vars

----------------------------------------------------------------------------
(* The dispatcher on a directory whose sender fails at every attempt *)

\* a directory the router has staged: every file, a valid target.json that
\* has no retries yet, no marker
Staged == Dir(Files, FALSE, FALSE, FALSE, Target(MandatoryKeys, Absent, Absent))

InitFailing ==
    /\ now = 0
    /\ outgoing = [d \in Names |-> Staged]
    /\ success = EmptyTree
    /\ error \in {EmptyTree, [EmptyTree EXCEPT ![Plain("A")] = OldSuspended]}
    /\ rpc = [d \in Names |-> "done"]
    /\ wk = [w \in Workers |-> Idle]
    /\ last = NoCall
    /\ faults = 0
    /\ sends = [d \in Names |-> 0]
    /\ InitStatusIdle
    /\ InitCleanIdle
    /\ InitScanIdle

NextFailing ==
    \/ \E w \in Workers, d \in Names : Dispatch(w, d)
    \/ \E w \in Workers, m \in MoveModes : SenderFails(w, m)
    \/ Tick

SpecFailing == InitFailing /\ [][NextFailing]_vars

----------------------------------------------------------------------------
(* _move_sent_directory applied to directories and destination folders *)

\* the directories handed to _move_sent_directory
MoveSources ==
    {Dir(dcm, FALSE, FALSE, s, tj) :
        dcm \in (SUBSET Files) \ {{}}, s \in BOOLEAN,
        tj \in {Target(MandatoryKeys, Absent, Absent), Target(MandatoryKeys, 1, 0)}}

\* what a destination folder may hold at time t: nothing, a directory of the
\* same basename, and one of that basename with the timestamp of t
MoveTrees(t) ==
    {[EmptyTree EXCEPT ![Plain("A")] = p, ![Stamped("A", t)] = q] :
        p \in {NoDir, OldSuspended},
        q \in {NoDir, OldSuspended, [OldSuspended EXCEPT !.inside = {OldSuspended}]}}

\* _move_sent_directory(source_folder, destination_folder)
MoveSent(d, dest, m) ==
    /\ last = NoCall
    /\ LET mv == _move_sent_directory(outgoing[d], IF dest = "success" THEN success ELSE error,
                                       d, now, m)
       IN  /\ outgoing' = [outgoing EXCEPT ![d] = mv.src]
           /\ IF dest = "success"
              THEN success' = mv.tree /\ UNCHANGED error
              ELSE error' = mv.tree /\ UNCHANGED success
           /\ last' = Done(d, IF mv.moved THEN "moved" ELSE "move_failed")
    /\ UNCHANGED <<now, rpc, wk, faults, sends, statVars, cleanVars, scanVars>>

InitMove ==
    /\ now \in Times
    /\ outgoing \in [Names -> MoveSources]
    /\ success \in MoveTrees(now)
    /\ error \in MoveTrees(now)
    /\ rpc = [d \in Names |-> "done"]
    /\ wk = [w \in Workers |-> Idle]
    /\ last = NoCall
    /\ faults = 0
    /\ sends = [d \in Names |-> 0]
    /\ InitStatusIdle
    /\ InitCleanIdle
    /\ InitScanIdle

NextMove ==
    \E d \in Names, dest \in {"success", "error"}, m \in MoveModes : MoveSent(d, dest, m)

SpecMove == InitMove /\ [][NextMove]_vars

----------------------------------------------------------------------------
(* find_series_uid applied to directories and listing orders *)

\* the file names a directory may hold: files of two series, one with a
\* second '#', and target.json
DirNames ==
    { FileName(<<"2">>, "a", ".dcm"), FileName(<<"2">>, "a", ".tags"),
      FileName(<<"1", "0">>, "a", ".dcm"), <<"2", "#", "b", "#", "c", ".dcm">>,
      <<"target", ".json">> }

\* Path(work_dir).iterdir(): the names in any order
DirListings == UNION {Orders(c) : c \in SUBSET DirNames}

FindSeriesUid ==
    /\ series_uid = NotCalled
    /\ series_uid' = find_series_uid(work_dir)
    /\ UNCHANGED <<now, entries, cpc, cand, deleted, cevents, cq, offpeak, current_time,
                   inwindow, work_dir, dispVars, statVars, scanVars>>

InitUid ==
    /\ now = 0
    /\ entries = [e \in EntryNames |-> [isdir |-> FALSE, mtime |-> 0, present |-> FALSE]]
    /\ cpc = "idle"
    /\ cand = <<>>
    /\ deleted = {}
    /\ cevents = {}
    /\ cq = <<>>
    /\ offpeak = NoWindow
    /\ current_time = NoTime
    /\ inwindow = NotAsked
    /\ work_dir \in DirListings
    /\ series_uid = NotCalled
    /\ InitDispatchIdle
    /\ InitStatusIdle
    /\ InitScanIdle

NextUid == FindSeriesUid

SpecUid == InitUid /\ [][NextUid]_vars

----------------------------------------------------------------------------
(* The readiness check applied to every state of a directory *)

TargetStates ==
    {NoTarget, Malformed}
    \cup {Target(k, r, n) : k \in SUBSET MandatoryKeys, r \in {Absent, 1},
                             n \in {Absent} \cup Times}

FolderStates ==
    {NoDir}
    \cup {Dir(dcm, l, e, s, tj) : dcm \in SUBSET Files, l \in BOOLEAN, e \in BOOLEAN,
                                   s \in BOOLEAN, tj \in TargetStates}

\* the dispatcher asks whether folder is ready
CheckReady ==
    /\ result = Pending
    /\ result' = is_ready_for_sending(folder)
    /\ UNCHANGED <<now, folder, dispVars, cleanVars, scanVars>>

InitStatus ==
    /\ now \in Times
    /\ folder \in FolderStates
    /\ result = Pending
    /\ InitDispatchIdle
    /\ InitCleanIdle
    /\ InitScanIdle

NextStatus == CheckReady

SpecStatus == InitStatus /\ [][NextStatus]_vars

----------------------------------------------------------------------------
(* cleaner.py *)

\* the candidates with the age compared by <= instead of <
Candidates_inclusive(es, t) ==
    {e \in DOMAIN es : es[e].present /\ es[e].isdir /\ Retention <= t - es[e].mtime}

\* clean_dir's candidates: the subdirectories older than retention
Candidates(es, t) ==
    {e \in DOMAIN es : es[e].present /\ es[e].isdir /\ Retention < t - es[e].mtime}

\* sorted(candidates, key=mtime, reverse=True): equal keys keep the order
\* of the listing, which is any
OldestFirst(es, t) ==
    {o \in Orders(Candidates(es, t)) :
        \A i \in 1..Len(o), j \in 1..Len(o) :
            i < j => es[o[i]].mtime >= es[o[j]].mtime}

\* Path(folder).iterdir()
Listing(f) == [e \in {x \in EntryNames : FolderOf[x] = f} |-> entries[e]]

\* clean handing the error folder to clean_dir as well
CleanFolders_all == <<"success", "discard", "error">>

\* the folders clean hands to clean_dir, in this order
CleanFolders == <<"success", "discard">>

\* an event handed to the monitor: its kind and the path it is about
Event(kind, path) == [event |-> kind, path |-> path]

\* the signal handler: helper.triggerTerminate()
Terminate ==
    /\ ~terminated
    /\ terminated' = TRUE
    /\ UNCHANGED <<now, dispVars, statVars, cleanVars, routerVars>>

\* clean up to the first clean_dir: the termination flag, the configuration
\* and the off-peak window are looked at once
Clean(cfg_ok) ==
    /\ cpc = "idle"
    /\ IF terminated
       THEN /\ inwindow' = Skipped("terminated")
            /\ cevents' = {}
            /\ UNCHANGED <<cpc, cq, current_time>>
       ELSE IF ~cfg_ok
       THEN /\ inwindow' = Skipped("noconfig")
            /\ cevents' = {Event("CONFIG_UPDATE", "none")}
            /\ UNCHANGED <<cpc, cq, current_time>>
       ELSE LET r == _is_offpeak(offpeak.start, offpeak.end, Clock(now)) IN
            /\ current_time' = Clock(now)
            /\ cevents' = {}
            /\ inwindow' = r
            /\ IF r.kind = "value" /\ r.value
               THEN cpc' = "clean" /\ cq' = CleanFolders
               ELSE UNCHANGED <<cpc, cq>>
    /\ UNCHANGED <<now, entries, cand, deleted, offpeak, work_dir, series_uid,
                   dispVars, statVars, scanVars>>

\* clean_dir lists the folder and sorts the candidates
CleanDirList ==
    /\ cpc = "clean"
    /\ cq # <<>>
    /\ \E o \in OldestFirst(Listing(Head(cq)), now) : cand' = o
    /\ cpc' = "clean_dir"
    /\ UNCHANGED <<now, entries, deleted, cevents, work_dir, series_uid, cq, offpeak, current_time, inwindow,
                   dispVars, statVars, scanVars>>

\* what delete_folder may come to: the directory is removed, rmtree raises,
\* or the listing of the directory in find_series_uid raises
DeleteOutcomes == {"deleted", "failed", "unlistable"}

\* find_series_uid is called before the try: what it raises leaves
\* delete_folder, clean_dir and clean
sweep_goes_on(outcome) == outcome # "unlistable"

\* the events delete_folder sends
delete_events(outcome, e) ==
    IF outcome = "deleted" THEN {Event("CLEAN", e)}
    ELSE IF outcome = "failed" THEN {Event("ERROR", e), Event("PROCESSING", e)}
    ELSE {}

\* delete_folder on the next candidate
DeleteFolder(outcome) ==
    /\ cpc = "clean_dir"
    /\ cand # <<>>
    /\ LET e == Head(cand) IN
       /\ IF outcome = "deleted"
          THEN /\ entries' = [entries EXCEPT ![e].present = FALSE]
               /\ deleted' = deleted \cup {[name |-> e, age |-> now - entries[e].mtime]}
          ELSE UNCHANGED <<entries, deleted>>
       /\ cevents' = cevents \cup delete_events(outcome, e)
    /\ IF sweep_goes_on(outcome)
       THEN /\ cand' = Tail(cand)
            /\ UNCHANGED <<cpc, cq>>
       ELSE /\ cand' = <<>>
            /\ cq' = <<>>
            /\ cpc' = "idle"
    /\ UNCHANGED <<now, offpeak, current_time, inwindow, work_dir, series_uid,
                   dispVars, statVars, scanVars>>

\* clean_dir returns
CleanDirReturn ==
    /\ cpc = "clean_dir"
    /\ cand = <<>>
    /\ cpc' = "clean"
    /\ cq' = Tail(cq)
    /\ UNCHANGED <<now, entries, cand, deleted, cevents, work_dir, series_uid, offpeak, current_time, inwindow,
                   dispVars, statVars, scanVars>>

\* clean returns
CleanReturn ==
    /\ cpc = "clean"
    /\ cq = <<>>
    /\ cpc' = "idle"
    /\ UNCHANGED <<now, entries, cand, deleted, cevents, work_dir, series_uid, cq, offpeak, current_time, inwindow,
                   dispVars, statVars, scanVars>>

\* the windows the configuration may hold: within a day, across midnight,
\* and one that does not parse
CleanWindows ==
    { [start |-> HHMM("0", "0", "0", "0"), end |-> HHMM("0", "1", "0", "0")],
      [start |-> HHMM("0", "2", "0", "0"), end |-> HHMM("0", "0", "0", "0")],
      [start |-> HHMM("2", "4", "0", "0"), end |-> HHMM("0", "1", "0", "0")] }

\* what the folders that are not swept hold: an old directory in error/ and
\* outgoing/, an old file in incoming/
Unswept ==
    ("e4" :> [isdir |-> TRUE, mtime |-> 0, present |-> TRUE]) @@
    ("e5" :> [isdir |-> FALSE, mtime |-> 0, present |-> TRUE]) @@
    ("e6" :> [isdir |-> TRUE, mtime |-> 0, present |-> TRUE])

InitClean ==
    /\ now = 0
    /\ entries \in {es \in [EntryNames -> {x \in Entries : x.present}] :
                        /\ \A e \in DOMAIN Unswept : es[e] = Unswept[e]
                        /\ es["e3"].isdir}
    /\ cpc = "idle"
    /\ cand = <<>>
    /\ deleted = {}
    /\ cevents = {}
    /\ work_dir = <<>>
    /\ series_uid = NotCalled
    /\ cq = <<>>
    /\ offpeak \in CleanWindows
    /\ current_time = NoTime
    /\ inwindow = NotAsked
    /\ InitDispatchIdle
    /\ InitStatusIdle
    /\ InitScanIdle

NextClean ==
    \/ \E cfg_ok \in BOOLEAN : Clean(cfg_ok)
    \/ CleanDirList
    \/ \E outcome \in DeleteOutcomes : DeleteFolder(outcome)
    \/ CleanDirReturn
    \/ CleanReturn
    \/ Terminate
    \/ Tick

SpecClean == InitClean /\ [][NextClean]_vars

----------------------------------------------------------------------------
(* _is_offpeak applied to windows and times of day *)

\* offpeak_start and offpeak_end as the configuration may give them
ClockStrings ==
    { HHMM("2", "2", "0", "0"), HHMM("0", "6", "0", "0"), HHMM("0", "3", "1", "5"),
      HHMM("0", "9", "0", "0"), HHMM("0", "0", "0", "0"), HHMM("2", "3", "5", "9"),
      <<"6", ":", "0", "0">>, HHMM("2", "4", "0", "0") }

\* the times of day at which clean may ask
CurrentTimes == [hour : {0, 3, 6, 9, 22, 23}, minute : {0, 15, 59}]

\* clean asks whether current_time is off-peak
CheckOffpeak ==
    /\ inwindow = NotAsked
    /\ inwindow' = _is_offpeak(offpeak.start, offpeak.end, current_time)
    /\ UNCHANGED <<now, entries, cpc, cand, deleted, cevents, work_dir, series_uid, cq, offpeak, current_time,
                   dispVars, statVars, scanVars>>

InitOffpeak ==
    /\ now = 0
    /\ entries = [e \in EntryNames |-> [isdir |-> FALSE, mtime |-> 0, present |-> FALSE]]
    /\ cpc = "idle"
    /\ cand = <<>>
    /\ deleted = {}
    /\ cevents = {}
    /\ work_dir = <<>>
    /\ series_uid = NotCalled
    /\ cq = <<>>
    /\ offpeak \in [start : ClockStrings, end : ClockStrings]
    /\ current_time \in CurrentTimes
    /\ inwindow = NotAsked
    /\ InitDispatchIdle
    /\ InitStatusIdle
    /\ InitScanIdle

NextOffpeak == CheckOffpeak

SpecOffpeak == InitOffpeak /\ [][NextOffpeak]_vars

----------------------------------------------------------------------------
(* The router's scan of incoming/ *)

InitRouter ==
    /\ now = 0
    /\ InitScanIdle
    /\ InitDispatchIdle
    /\ InitStatusIdle
    /\ InitCleanIdle

NextRouter ==
    \/ \E name \in IncomingNames : Receive(name)
    \/ \E cfg_ok \in BOOLEAN :
          \E listing \in Listings(incoming) :
              runRouter(cfg_ok, listing)
    \/ SeriesBegin
    \/ \E raises \in BOOLEAN : SeriesEnd(raises)
    \/ RouterReturn
    \/ Terminate
    \/ Tick

SpecRouter == InitRouter /\ [][NextRouter]_vars

----------------------------------------------------------------------------
(* Properties of the dispatcher *)

\* worker w ends a call of execute in this step
Ends(w) == wk[w].pc = "sending" /\ wk'[w].pc = "idle"

\* the retries of a target.json, absent counted as 0
Retries(tj) == IF tj.retries = Absent THEN 0 ELSE tj.retries

\* the directories below tree that carry basename d, at the top or moved
\* into another one
Under(tree, d) ==
    UNION {{[tree[n] EXCEPT !.inside = {}]} \cup tree[n].inside :
              n \in {x \in DestNames : x.base = d /\ tree[x].exists}}

\* C1: the sender never runs for the same directory in two workers at once
\* (at most one worker holds the directory's .sending claim), and a worker
\* never starts the sender on a directory that carries .sending.
C1_OneSenderPerDirectory ==
    /\ \A w1 \in Workers, w2 \in Workers :
          (w1 # w2 /\ wk[w1].pc = "sending" /\ wk[w2].pc = "sending")
              => wk[w1].dir # wk[w2].dir
    /\ \A w \in Workers : wk[w].pc = "sending" => ~wk[w].pre.sending

\* C2: when the sender exits 0, after execute the directory is gone from
\* outgoing/ and is under success/ with its payload and target.json and
\* without .sending.
C2_SuccessMovesToSuccess ==
    [][\A w \in Workers :
          (Ends(w) /\ last'.outcome = "dispatched") =>
              LET d == wk[w].dir IN
              /\ ~outgoing'[d].exists
              /\ \E x \in Under(success', d) :
                    /\ x.dcm = outgoing[d].dcm
                    /\ x.tj = outgoing[d].tj
                    /\ ~x.sending]_vars

\* C3: when the sender fails and the incremented retry count is below
\* retry_max, execute returns and leaves the directory in outgoing/ with its
\* payload, retries one higher than before the call, next_retry_at = failure
\* time + retry_delay, and none of .sending, .lock, .error.
C3_RetryLeavesDirectoryReady ==
    [][\A w \in Workers :
          (Ends(w) /\ last'.outcome \in {"retry", "retry_raised"}) =>
              LET d == wk[w].dir IN
              /\ last'.outcome = "retry"
              /\ outgoing'[d].exists
              /\ outgoing'[d].dcm = wk[w].pre.dcm
              /\ outgoing'[d].tj.kind = "ok"
              /\ outgoing'[d].tj.retries = Retries(wk[w].pre.tj) + 1
              /\ outgoing'[d].tj.next_retry_at = now + RetryDelay
              /\ ~outgoing'[d].sending
              /\ ~outgoing'[d].lock
              /\ ~outgoing'[d].error]_vars

\* the directories that a move of basename d at time t has put into the
\* tree: under a name that was free, or inside one that was taken
Placed(tree1, tree2, d, t) ==
    UNION {IF tree1[n].exists
           THEN tree2[n].inside \ tree1[n].inside
           ELSE IF tree2[n].exists THEN {tree2[n]} ELSE {} :
              n \in {Plain(d), Stamped(d, t)}}

\* the directory src of basename d has arrived in tree2, whole and without
\* .sending
Arrived(src, tree1, tree2, d, t) ==
    \E x \in Placed(tree1, tree2, d, t) :
        /\ x.dcm = src.dcm
        /\ x.tj = src.tj
        /\ ~x.sending

C5_NotReadyBeforeNextRetry ==
    [][/\ \A d \in Names :
            (outgoing[d].tj.kind = "ok" /\ outgoing[d].tj.next_retry_at > now)
                => is_ready_for_sending(outgoing[d]).kind # "target"
       /\ \A w \in Workers :
            (wk[w].pc = "idle" /\ wk'[w].pc = "sending")
                => wk'[w].target_info.next_retry_at <= now]_vars

\* the file f of directory d is in outgoing/d or in a directory of that
\* basename below error/
Kept(out, err, d, f) ==
    \/ f \in out[d].dcm
    \/ \E x \in Under(err, d) : f \in x.dcm

\* C7: when the sender fails, whatever branch execute takes and also when the
\* move to error/ fails, every payload file the directory had before the call
\* is afterwards still in it under outgoing/ or in its copy under error/.
C7_FailureKeepsPayload ==
    [][\A w \in Workers :
          (Ends(w) /\ last'.outcome # "dispatched") =>
              \A f \in wk[w].pre.dcm : Kept(outgoing', error', wk[w].dir, f)]_vars

\* a move to error/ failed and left something behind on both sides
C7_Witness ==
    /\ last.outcome = "move_failed"
    /\ outgoing[last.dir].exists
    /\ Under(error, last.dir) # {}
    /\ \A f \in Files : Kept(outgoing, error, last.dir, f)

\* what the router has placed of directory d is everything
Complete(d) == outgoing[d].dcm = Files /\ outgoing[d].tj.kind # "absent"

\* C8: while the router is staging a directory it carries .lock, the
\* dispatcher does not see it as ready and starts no sender on it; .lock is
\* removed only when every file and target.json are placed, so a directory
\* with something of its series still to be placed is never ready.
C8_NotReadyWhileStaging ==
    [][\A d \in Names :
          /\ rpc[d] = "staging" =>
                /\ outgoing[d].lock
                /\ is_ready_for_sending(outgoing[d]).kind # "target"
                /\ \A w \in Workers : ~(wk'[w].pc = "sending" /\ wk'[w].dir = d)
          /\ (rpc[d] # "done" /\ outgoing[d].exists /\ ~Complete(d)) =>
                is_ready_for_sending(outgoing[d]).kind # "target"
          /\ (outgoing[d].lock /\ ~outgoing'[d].lock) => Complete(d)
          /\ \A w \in Workers :
                (wk[w].pc = "idle" /\ wk'[w].pc = "sending" /\ wk'[w].dir = d) =>
                    (rpc[d] = "done" /\ ~outgoing[d].lock)]_vars

\* the router holds .lock over a directory that has a valid target.json and
\* some but not all of its files
C8_Witness ==
    \E d \in Names :
        /\ rpc[d] = "staging"
        /\ outgoing[d].lock
        /\ outgoing[d].dcm # {}
        /\ outgoing[d].dcm # Files
        /\ is_target_json_valid(outgoing[d]).kind = "target"

\* C9 as stated: a directory the dispatcher places under error/ has, in its
\* target.json at the moment it is placed, retries >= retry_max.
C9_ErrorHasRetryMaxRecorded ==
    [][\A w \in Workers :
          (Ends(w) /\ last'.outcome = "suspended") =>
              \A x \in Placed(error, error', wk[w].dir, now) :
                  Retries(x.tj) >= RetryMax]_vars

\* C9 amended: the count that has reached retry_max is the incremented one,
\* which is not written back: a directory placed under error/ has
\* retries + 1 >= retry_max in its target.json, before and after the move.
C9_ErrorHasIncrementedRetryMax ==
    [][\A w \in Workers :
          (Ends(w) /\ last'.outcome \in {"suspended", "move_failed"}) =>
              /\ Retries(outgoing[wk[w].dir].tj) + 1 >= RetryMax
              /\ \A x \in Placed(error, error', wk[w].dir, now) :
                    x.tj.kind = "ok" => Retries(x.tj) + 1 >= RetryMax]_vars

\* a directory that went through every retry has been placed under error/
C9_Witness ==
    /\ last.outcome = "suspended"
    /\ \E x \in Under(error, last.dir) :
          x.dcm = Files /\ Retries(x.tj) + 1 = RetryMax

----------------------------------------------------------------------------
(* Properties of the readiness check *)

\* the directory is actionable
Actionable(dir) ==
    /\ dir.exists
    /\ ~dir.lock
    /\ ~dir.error
    /\ ~dir.sending
    /\ dir.dcm # {}
    /\ dir.tj.kind = "ok"
    /\ MandatoryKeys \subseteq dir.tj.keys

\* C6: is_ready_for_sending returns the parsed target exactly for the
\* actionable directories and the not-ready outcome for every other one.
C6_ReadyIffActionable ==
    result # Pending =>
        /\ (result.kind = "target") <=> Actionable(folder)
        /\ result.kind = "target" => result.target = folder.tj
        /\ ~Actionable(folder) => result.kind = "false"

----------------------------------------------------------------------------
(* Properties of the cleaner *)

\* C10: clean_dir deletes a subdirectory only if its age is above
\* retention; one whose age is at most retention stays as it is.
C10_DeletesOnlyAged ==
    /\ \A x \in deleted : x.age > Retention
    /\ \A e \in EntryNames :
          ~entries[e].present => (entries[e].isdir /\ now - entries[e].mtime > Retention)
    /\ \A e \in EntryNames : \A i \in 1..Len(cand) :
          cand[i] = e => (entries[e].isdir /\ now - entries[e].mtime > Retention)

\* a sweep has deleted a directory and left one whose age is the retention
C10_Witness ==
    /\ deleted # {}
    /\ \E e \in EntryNames :
          /\ entries[e].isdir
          /\ entries[e].present
          /\ now - entries[e].mtime = Retention

\* C11: the cleaner deletes a directory only at a moment when the wall clock
\* is inside the configured off-peak window, also late in a sweep.
C11_DeletesOnlyOffpeak ==
    [][\A e \in EntryNames :
          (entries[e].present /\ ~entries'[e].present) =>
              _is_offpeak(offpeak.start, offpeak.end, Clock(now)) = Value(TRUE)]_vars

\* C12: within one clean_dir call the candidates are deleted oldest first:
\* the one handed to delete_folder has no candidate with a smaller mtime
\* still waiting behind it.
C12_DeletesOldestFirst ==
    [][(cpc = "clean_dir" /\ cand # <<>> /\ cand' = Tail(cand)) =>
          \A i \in 2..Len(cand) :
              entries[Head(cand)].mtime <= entries[cand[i]].mtime]_vars

\* C13: a step of the cleaner leaves every entry of error/, incoming/ and
\* outgoing/ and every non-directory entry of success/ and discard/ as it was.
C13_SweepsOnlySuccessAndDiscard ==
    [][\A e \in EntryNames :
          (FolderOf[e] \notin {"success", "discard"} \/ ~entries[e].isdir)
              => entries'[e] = entries[e]]_vars

\* a clean call has swept and returned: something was deleted, while the old
\* entries of error/, incoming/ and outgoing/ and an old file in a swept
\* folder are still there
C13_Witness ==
    /\ cpc = "idle"
    /\ inwindow = Value(TRUE)
    /\ deleted # {}
    /\ \A e \in DOMAIN Unswept : entries[e].present /\ now - entries[e].mtime > Retention
    /\ \E e \in EntryNames :
          /\ FolderOf[e] \in {"success", "discard"}
          /\ ~entries[e].isdir
          /\ entries[e].present
          /\ now - entries[e].mtime > Retention

----------------------------------------------------------------------------
(* Properties of the off-peak predicate *)

\* a well-formed HH:MM string, and the minute of the day it names
WellFormed(s) ==
    /\ Len(s) = 5
    /\ s[3] = ":"
    /\ \A i \in {1, 2, 4, 5} : s[i] \in DOMAIN DigitValue
    /\ 10 * DigitValue[s[1]] + DigitValue[s[2]] <= 23
    /\ 10 * DigitValue[s[4]] + DigitValue[s[5]] <= 59
MinuteOfDay(s) ==
    600 * DigitValue[s[1]] + 60 * DigitValue[s[2]] + 10 * DigitValue[s[4]] + DigitValue[s[5]]

\* C17: for well-formed offpeak_start, offpeak_end and current time,
\* _is_offpeak is true exactly when start < end and start <= current <= end,
\* or start >= end and (current >= start or current <= end); with 22:00 and
\* 06:00 it is true at 03:15 and false at 09:00.
C17_OffpeakPredicate ==
    (inwindow # NotAsked /\ WellFormed(offpeak.start) /\ WellFormed(offpeak.end)) =>
        LET start == MinuteOfDay(offpeak.start)
            end == MinuteOfDay(offpeak.end)
            current == 60 * current_time.hour + current_time.minute
        IN  /\ inwindow.kind = "value"
            /\ inwindow.value <=>
                  \/ start < end /\ start <= current /\ current <= end
                  \/ start >= end /\ (current >= start \/ current <= end)
            /\ (start = 22 * 60 /\ end = 6 * 60 /\ current = 3 * 60 + 15)
                  => inwindow.value
            /\ (start = 22 * 60 /\ end = 6 * 60 /\ current = 9 * 60)
                  => ~inwindow.value

\* 03:15 was found inside the window from 22:00 to 06:00
C17_Witness ==
    /\ inwindow = Value(TRUE)
    /\ offpeak = [start |-> HHMM("2", "2", "0", "0"), end |-> HHMM("0", "6", "0", "0")]
    /\ current_time = [hour |-> 3, minute |-> 15]

----------------------------------------------------------------------------
(* Properties of the router's scan *)

\* the series UIDs of the file names, and the elements of a sequence
UIDs == {<<"2">>, <<"1", "0">>}
Elems(seq) == {seq[i] : i \in DOMAIN seq}

\* the .tags files of a series that are in incoming/, and the newest of
\* their modification times
TagsFiles(uid) ==
    {n \in IncomingNames :
        incoming[n] # NoFile /\ \E stem \in {"a", "b"} : n = FileName(uid, stem, ".tags")}
Newest(uid) ==
    CHOOSE m \in {incoming[n] : n \in TagsFiles(uid)} :
        \A n \in TagsFiles(uid) : incoming[n] <= m

\* runRouter lists incoming/ in this step, and returns in this step
Scans == spc = "idle" /\ spc' = "series"
Returns == spc # "idle" /\ spc' = "idle"

\* C14 as stated: a scan takes a series for processing exactly when it has
\* .tags files in incoming/ and now minus the newest of their mtimes is at
\* least series_complete_trigger; .dcm files play no part.
C14_CompleteAtThreshold ==
    [][Scans =>
          /\ Elems(todo') \subseteq UIDs
          /\ \A uid \in UIDs :
                uid \in Elems(todo') <=>
                    (TagsFiles(uid) # {} /\ now - Newest(uid) >= SeriesCompleteTrigger)]_vars

\* C14 amended: the same with the newest .tags mtime more than
\* series_complete_trigger ago; a series exactly at the threshold waits.
C14_CompleteAboveThreshold ==
    [][Scans =>
          /\ Elems(todo') \subseteq UIDs
          /\ \A uid \in UIDs :
                uid \in Elems(todo') <=>
                    (TagsFiles(uid) # {} /\ now - Newest(uid) > SeriesCompleteTrigger)]_vars

\* a scan has just taken one series and left one that is exactly at the
\* threshold
C14_Witness ==
    /\ spc = "series"
    /\ scanned = Began("scanned", now)
    /\ handed = <<>>
    /\ todo # <<>>
    /\ \E uid \in UIDs :
          /\ uid \notin Elems(todo)
          /\ TagsFiles(uid) # {}
          /\ now - Newest(uid) = SeriesCompleteTrigger

\* the sequence is strictly ascending in the order of str
Ascending(seq) ==
    \A i \in DOMAIN seq, j \in DOMAIN seq : i < j => StrLess(seq[i], seq[j])

\* C15: when a scan returns and no shutdown was requested, every complete
\* series was handed to process_series exactly once, in ascending order of
\* the UID, whatever order the listing had.
C15_HandsCompleteSeriesOnceInOrder ==
    [][(Returns /\ ~terminated) =>
          /\ Ascending(handed)
          /\ Elems(handed) = Elems(completeSeries)
          /\ Len(handed) = Len(completeSeries)]_vars

\* two series were handed over in sorted order, "10" before "2", although
\* the listing met "2" first
C15_Witness ==
    /\ spc = "series"
    /\ todo = <<>>
    /\ ~terminated
    /\ completeSeries = << <<"2">>, <<"1", "0">> >>
    /\ handed = << <<"1", "0">>, <<"2">> >>

\* C16: once the termination flag is set no further series is handed to
\* process_series, and a scan that starts with the flag set does nothing.
C16_NoHandOffAfterTermination ==
    [][/\ Len(handed') > Len(handed) => ~terminated
       /\ (spc = "idle" /\ terminated) => spc' = "idle"]_vars

\* C20: a series whose processing raised has its ERROR event, and when the
\* scan returns without a shutdown request every complete series after it in
\* sorted order was handed to process_series.
C20_ScanGoesOnAfterException ==
    [][/\ failedSeries' \subseteq revents'
       /\ (Returns /\ ~terminated) =>
             \A u \in failedSeries' : \A v \in Elems(completeSeries) :
                 StrLess(u, v) => v \in Elems(handed)]_vars

\* the processing of "10" raised and "2" was handed over after it
C20_Witness ==
    /\ spc = "series"
    /\ todo = <<>>
    /\ ~terminated
    /\ <<"1", "0">> \in failedSeries
    /\ <<"1", "0">> \in revents
    /\ handed = << <<"1", "0">>, <<"2">> >>

----------------------------------------------------------------------------
(* Properties of a directory that cannot be delivered *)

\* C18: the sender is started at most retry_max times on a directory on which
\* it fails at every attempt, and no sender runs on a directory that has left
\* outgoing/ for error/.
C18_AtMostRetryMaxSends ==
    /\ \A d \in Names : sends[d] <= RetryMax
    /\ \A w \in Workers : wk[w].pc = "sending" => outgoing[wk[w].dir].exists

\* C19: for a directory whose target.json does not parse the readiness check
\* gives the not-ready outcome as a value.
C19_MalformedIsNotReady ==
    (result # Pending /\ folder.exists /\ folder.tj.kind = "malformed")
        => result.kind = "false"

----------------------------------------------------------------------------
(* Properties of the error-file reprocessing *)

\* a file whose name ends in .error is in incoming/
ErrorFilePresent ==
    \E n \in IncomingNames :
        /\ incoming[n] # NoFile
        /\ \E uid \in UIDs, stem \in {"a", "b"} : n = FileName(uid, stem, ".error")

\* C21 as stated: a scan that saw a .error entry calls process_error_files
\* once, after all its complete series were handled, and a scan that saw
\* none does not call it.
C21_ReprocessesWhenErrorFileSeen ==
    [][/\ Scans => (error_files_found' <=> ErrorFilePresent)
       /\ Returns =>
             /\ reprocessed' <=> error_files_found
             /\ reprocessed' => Len(handed) = Len(completeSeries)]_vars

\* C21 amended: the same for a scan that runs to the end of its loop; a scan
\* that the termination flag ends after a series returns without calling
\* process_error_files.
C21_ReprocessesUnlessTerminated ==
    [][/\ Scans => (error_files_found' <=> ErrorFilePresent)
       /\ (Returns /\ spc = "series") =>
             /\ reprocessed' <=> error_files_found
             /\ Len(handed) = Len(completeSeries)
       /\ (Returns /\ spc = "processing") =>
             /\ terminated
             /\ ~reprocessed']_vars

\* a scan that handled a series, whose processing raised, has returned after
\* calling process_error_files
C21_Witness ==
    /\ spc = "idle"
    /\ ~terminated
    /\ reprocessed
    /\ revents # {}
    /\ ErrorFilePresent

----------------------------------------------------------------------------
(* Properties of the move into success/ and error/ *)

\* the directory src of basename d went from outgoing/ into the folder, which
\* held tree1 and holds tree2: beside a directory of that basename, which is
\* as it was, under basename_timestamp, and else under the basename; all its
\* files are there and .sending is not
Landed(src, tree1, tree2, d, t) ==
    IF tree1[Plain(d)].exists
    THEN /\ tree2[Plain(d)] = tree1[Plain(d)]
         /\ tree2[Stamped(d, t)] = [src EXCEPT !.sending = FALSE]
    ELSE tree2[Plain(d)] = [src EXCEPT !.sending = FALSE]

\* C22: a directory that is moved into success/ or error/ leaves a directory
\* of the same basename there unchanged and ends up whole, without .sending,
\* under basename_timestamp; with no such directory it ends up under its
\* basename.
C22_MoveKeepsBothDirectories ==
    [][\A d \in Names :
          (last = NoCall /\ last' = Done(d, "moved")) =>
              /\ ~outgoing'[d].exists
              /\ \/ error' = error /\ Landed(outgoing[d], success, success', d, now)
                 \/ success' = success /\ Landed(outgoing[d], error, error', d, now)]_vars

----------------------------------------------------------------------------
(* Properties of a failing delete *)

\* delete_folder was called on the next candidate and the directory is
\* still there
DeleteFails ==
    /\ cpc = "clean_dir"
    /\ cand # <<>>
    /\ cand' # cand
    /\ entries'[Head(cand)].present

\* C23: when deleting a candidate fails during a clean_dir sweep, an error
\* event is sent for it and the sweep goes on: clean_dir is only left when
\* every candidate has been attempted.
C23_FailedDeleteDoesNotAbortSweep ==
    [][/\ DeleteFails =>
            /\ Event("ERROR", Head(cand)) \in cevents'
            /\ cpc' = "clean_dir"
            /\ cand' = Tail(cand)
       /\ (cpc = "clean_dir" /\ cpc' # "clean_dir") => cand = <<>>]_vars

----------------------------------------------------------------------------
(* Properties of find_series_uid *)

\* C24: for every directory contents and listing order, find_series_uid
\* returns what stands before the first '#' of a file name when a file name
\* holds '#', and the sentinel "series_uid-not-found" when none does, the
\* empty directory included.
C24_FindsSeriesUidOrSentinel ==
    series_uid # NotCalled =>
        IF \E i \in 1..Len(work_dir) : HasHash(work_dir[i])
        THEN \E i \in 1..Len(work_dir) :
                HasHash(work_dir[i]) /\ series_uid = Uid(split(work_dir[i]))
        ELSE series_uid = Sentinel

====
